---------------------------- MODULE Spec2Model ----------------------------
(***************************************************************************)
(* The messenger-interface concurrency layer of chatsky                    *)
(* (src/chatsky/messengers/common/interface.py) as a state machine, with   *)
(* the pipeline run it drives and the context storage it persists to.      *)
(*                                                                         *)
(* Every coroutine is modelled by its suspension points: one action is the *)
(* code a task runs between two awaits, as the asyncio event loop runs it  *)
(* (one task at a time, no preemption between awaits).                     *)
(*                                                                         *)
(* The specifications share the variables:                                 *)
(*   Spec         an interface run through run_in_foreground and shutdown; *)
(*   SpecPool     _polling_loop and number_of_workers _worker coroutines   *)
(*                started side by side (what connect is written to start); *)
(*   SpecJob      _worker_job awaited directly by concurrent callers;      *)
(*   SpecFifo     _polling_loop filling the queue for such callers;        *)
(*   SpecCallback a CallbackMessengerInterface;                            *)
(*   SpecShared   a polling and a callback interface on one pipeline;      *)
(*   SpecRun      the execution-state machine and the extra handlers of a  *)
(*                pipeline run (spec 4.1, 4.2; types.py);                  *)
(*   SpecStore    SQLContextStorage (src/dff/context_storages/sql.py).     *)
(***************************************************************************)
EXTENDS Naturals, Sequences, FiniteSets

\* ------------------------------------------------------------------ bounds
MaxQueue == 3        \* real requests ever put on the request queue
MaxWorkers == 2      \* largest number_of_workers tried
NumCallers == 2      \* concurrent callers of _worker_job in SpecJob
MaxShutdowns == 2    \* calls of shutdown() in Spec
MaxCleanups == 2     \* direct calls of cleanup() in Spec
MaxDeliveries == 2   \* calls of on_request / on_request_async in SpecCallback
MaxWrites == 3       \* writes to the context storage in SpecStore
NumComponents == 2   \* components of the pipeline in SpecRun
HandlersPerStage == 2 \* extra handlers registered for each global stage
MaxRuns == 2         \* pipeline runs of the conversation in SpecRun

CtxIds == {"A", "B"}
Tokens == 1..MaxQueue
Callers == 1..NumCallers
WorkerIds == 1..MaxWorkers
ShutdownCalls == 1..MaxShutdowns
Deliveries == 1..MaxDeliveries

\* The sentinel None and a real request (ctx_id, update); n stands for the
\* update and tells two requests of one conversation apart.
None == [id |-> "None", n |-> 0]
Request(id, n) == [id |-> id, n |-> n]
Requests == {Request(id, n) : id \in CtxIds, n \in Tokens}

VARIABLES
    \* PollingMessengerInterface / MessengerInterface fields
    request_queue,          \* self.request_queue, head first
    number_of_workers,      \* self.number_of_workers
    worker_tasks,           \* self._worker_tasks (number of tasks appended)
    running,                \* self.running
    finished_working,       \* self.finished_working
    running_in_foreground,  \* self.running_in_foreground
    pipeline,               \* self.pipeline is bound
    task,                   \* self.task: state of the connect task
    \* arguments and build
    cls,                    \* the class of the interface object
    attrs,                  \* the MessengerInterface attributes the object has
    poll_timeout,           \* "None" or "finite"
    worker_timeout,         \* "None" or "finite"
    py311,                  \* asyncio.TimeoutError is the builtin TimeoutError
    \* the pipeline and the conversation store
    context_lock,           \* pipeline.context_lock[ctx_id]: holder, waiters
    store,                  \* ctx_id -> update of the last committed run, 0: none
    \* tasks
    cancel_req,             \* Task.cancel() was called on the connect/loop task
    loop_pc,                \* _polling_loop: its current await
    loop_exit,              \* why _polling_loop left its while loop
    job_pc,                 \* the shielded _polling_job task
    wpc,                    \* _worker tasks
    rif_pc,                 \* run_in_foreground
    sd_pc,                  \* shutdown() calls
    jpc, jreq, jres, jout,  \* callers of _worker_job
    \* history (observers only)
    enq,                    \* real requests enqueued so far
    enq_running,            \* ... of them while self.running was true
    sentinels_put,          \* None entries put so far
    cleared_with,           \* ... at the moment the loop cleared self.running
    received_updates,       \* what the last _get_updates that returned gave
    pred_false,             \* loop() has returned False at the while test
    unawaited,              \* _worker_job coroutine objects never awaited
    taken,                  \* requests taken from the queue
    runs,                   \* update -> calls of pipeline._run_pipeline
    responded,              \* update -> completed calls of _respond
    dropped,                \* requests whose wait_for timed out
    committed_dropped,      \* requests that timed out after their run was stored
    respond_calls,          \* per update: the argument pairs _respond was called with
    deq_order,              \* ctx_id -> its updates in the order they were dequeued
    lock_order,             \* ctx_id -> its updates in the order they got the lock
    sd_running_at_call,     \* the task was not done when shutdown() was called
    sd_fin_at_call,         \* finished_working when shutdown() was called
    sd_seen,                \* what `await self.task` gave shutdown()
    sd_fin_at_wake,         \* finished_working when that await ended
    rif_cleanup,            \* how the cleanup() awaited by run_in_foreground ended
    cleanup_outs,           \* how the direct calls of cleanup() ended, in order
    \* CallbackMessengerInterface
    pipeline_runner,        \* self._pipeline_runner
    cb_pc,                  \* calls of on_request / on_request_async
    cb_in,                  \* ... their arguments
    cb_out,                 \* ... what they returned or raised
    runner_log,             \* the invocations of the pipeline runner, in order
    \* SQLContextStorage
    contexts_table,         \* self.tables["contexts"]: primary_id -> row
    ctx_storage_key,        \* Context object -> its storage_key attribute
    clock,                  \* writes made so far: the source of updated_at
    db_op,                  \* the last operation on the storage and what it met
    deleted,                \* storage keys deleted so far
    \* the pipeline run of one conversation
    service_states,         \* the execution-state map: path -> state
    run_pc,                 \* where the run is: idle, a stage, start, body, done
    comp,                   \* the component the run is at, 0 outside components
    hidx,                   \* the next handler of the stage, in registration order
    runs_done,              \* completed pipeline runs
    fired,                  \* this run: handlers fired and bodies run, in order
    body_out,               \* this run: component -> how its body ended
    handler_failures,       \* this run: the stages in which a handler has failed
    invoked,                \* paths invoked so far
    prior,                  \* path -> its state before its last mark_running
    last_read               \* the last read of the execution-state map

fieldVars == <<number_of_workers, worker_tasks, running_in_foreground, pipeline, cls,
              attrs>>
ifaceVars == <<fieldVars, finished_working, task>>
buildVars == <<poll_timeout, worker_timeout, py311>>
pollVars == <<cancel_req, loop_pc, loop_exit, job_pc, enq, enq_running, sentinels_put,
             cleared_with, received_updates,
             pred_false>>
workerVars == <<wpc, unawaited>>
lifeVars == <<rif_pc, sd_pc, sd_running_at_call, sd_fin_at_call, sd_seen, sd_fin_at_wake>>
orderVars == <<deq_order, lock_order>>
jobVars == <<context_lock, store, jpc, jreq, jres, jout, taken, runs, responded,
             dropped, committed_dropped, respond_calls, orderVars>>
cleanupVars == <<rif_cleanup, cleanup_outs>>
cbVars == <<pipeline_runner, cb_pc, cb_in, cb_out, runner_log>>
storeVars == <<contexts_table, ctx_storage_key, clock, db_op, deleted>>
messengerVars == <<request_queue, running, ifaceVars, buildVars, cbVars, cleanupVars,
                   pollVars, workerVars, lifeVars, jobVars>>
runVars == <<service_states, run_pc, comp, hidx, runs_done, fired, body_out,
             handler_failures, invoked, prior, last_read>>
vars == <<messengerVars, storeVars, runVars>>

\* ------------------------------------------------------------ initial parts
\* The attributes MessengerInterface.__init__ assigns (lines 38-42).
BaseAttrs == {"task", "pipeline", "running_in_foreground", "running", "finished_working"}

\* The base attributes an object of class c has after construction.
\* PollingMessengerInterface.__init__ calls super().__init__() (line 195),
\* CallbackMessengerInterface.__init__ (lines 338-339) does not. The variable
\* of an attribute the object does not have holds the value that
\* MessengerInterface.__init__ would have given it; reading the attribute
\* raises AttributeError.
ConstructedAttrs(c) == IF c = "Callback" THEN {} ELSE BaseAttrs

\* MessengerInterface.__init__ and PollingMessengerInterface.__init__
InitFields ==
    /\ worker_tasks = 0
    /\ running = TRUE
    /\ finished_working = FALSE
    /\ running_in_foreground = FALSE
    /\ task = "None"

InitPipeline ==
    /\ context_lock = [id \in CtxIds |-> [holder |-> 0, waiters |-> <<>>]]
    /\ store = [id \in CtxIds |-> 0]

\* The local received_updates of a _polling_job whose fetch has not returned.
NoUpdates == [none |-> TRUE, ids |-> <<>>]

InitPoll ==
    /\ cancel_req = FALSE
    /\ loop_exit = "none"
    /\ job_pc = "none"
    /\ enq = 0
    /\ enq_running = 0
    /\ sentinels_put = 0
    /\ cleared_with = 0
    /\ received_updates = NoUpdates
    /\ pred_false = FALSE

InitLife ==
    /\ rif_pc = "idle"
    /\ sd_pc = [s \in ShutdownCalls |-> "idle"]
    /\ sd_running_at_call = [s \in ShutdownCalls |-> FALSE]
    /\ sd_fin_at_call = [s \in ShutdownCalls |-> FALSE]
    /\ sd_seen = [s \in ShutdownCalls |-> "nothing"]
    /\ sd_fin_at_wake = [s \in ShutdownCalls |-> FALSE]
    /\ rif_cleanup = "none"
    /\ cleanup_outs = <<>>

InitJobs ==
    /\ jpc = [c \in Callers |-> "idle"]
    /\ jreq = [c \in Callers |-> None]
    /\ jres = [c \in Callers |-> "none"]
    /\ jout = [c \in Callers |-> "none"]
    /\ taken = {}
    /\ runs = [n \in Tokens |-> 0]
    /\ responded = [n \in Tokens |-> 0]
    /\ dropped = {}
    /\ committed_dropped = {}
    /\ respond_calls = [n \in Tokens |-> <<>>]
    /\ deq_order = [id \in CtxIds |-> <<>>]
    /\ lock_order = [id \in CtxIds |-> <<>>]

\* The arguments of on_request / on_request_async: a message, an optional
\* ctx_id and an optional update_ctx_misc; and the contexts a runner returns.
Runners == {"r1", "r2"}
CallArgs ==
    {[request |-> "m1", ctx_id |-> "None", update_ctx_misc |-> "None"],
     [request |-> "m2", ctx_id |-> "A", update_ctx_misc |-> "misc"]}
NoCall == [kind |-> "none", request |-> "none", ctx_id |-> "None",
           update_ctx_misc |-> "None"]
NoContext == [by |-> "none", id |-> "none", request |-> "none", misc |-> "None"]
NoOutcome == [kind |-> "none", ctx |-> NoContext]

\* CallbackMessengerInterface.__init__ (it does not call the __init__ of
\* MessengerInterface: the object has none of the fields set there).
InitCallback ==
    /\ pipeline_runner = "None"
    /\ cb_pc = [d \in Deliveries |-> "idle"]
    /\ cb_in = [d \in Deliveries |-> NoCall]
    /\ cb_out = [d \in Deliveries |-> NoOutcome]
    /\ runner_log = <<>>


\* SQLContextStorage.__init__
\* A storage key, a primary id and a context.  A context is the keys of its
\* requests, of which the storage keeps the last RequestsKept
\* (partial_storage_test); the contexts written have one request less than
\* that, as many, or one more.  A Context object is named by its primary id.
RequestsKept == 3
StorageKeys == {"k1", "k2"}
PrimaryIds == {"p1", "p2", "p3"}
NULL == "NULL"
Contexts ==
    {[kind |-> "Context", requests |-> 1..n] :
        n \in (RequestsKept - 1)..(RequestsKept + 1)}
NoContextData == [kind |-> "None", requests |-> {}]
NoOp == [op |-> "none", key |-> NULL, ctx |-> NoContextData, contained |-> FALSE,
         len |-> 0]

\* An empty database, and Context objects that were never stored
\* (`testing_context.storage_key == None`).
InitStore ==
    /\ contexts_table = <<>>
    /\ ctx_storage_key = [p \in PrimaryIds |-> NULL]
    /\ clock = 0
    /\ db_op = NoOp
    /\ deleted = {}

\* The pipeline: its components by path, in execution order, a path that
\* is no component of it, and the registered extra handlers.
ComponentExecutionState == {"NOT_RUN", "RUNNING", "FINISHED", "FAILED"}
GlobalExtraHandlerType == {"BEFORE_ALL", "BEFORE", "AFTER", "AFTER_ALL"}
ExtraHandlerType == {"UNDEFINED", "BEFORE", "AFTER"}
Components == 1..NumComponents
UnknownPath == NumComponents + 1
Paths == Components \cup {UnknownPath}
StageOrder == <<"BEFORE_ALL", "BEFORE", "AFTER", "AFTER_ALL">>
NoRead == [path |-> 0, state |-> "NOT_RUN"]

\* A conversation that no pipeline has run yet.
InitRun ==
    /\ service_states = <<>>
    /\ run_pc = "idle"
    /\ comp = 0
    /\ hidx = 0
    /\ runs_done = 0
    /\ fired = <<>>
    /\ body_out = [c \in Components |-> "none"]
    /\ handler_failures = {}
    /\ invoked = {}
    /\ prior = [p \in Paths |-> "NOT_RUN"]
    /\ last_read = NoRead

\* ------------------------------------------------- _worker_job (lines 214-236)
\* asyncio.Lock.acquire returns without suspending only when the lock is
\* unlocked and nobody waits for it.
LockFree_Ignored(id) == TRUE

LockFree_Barging(id) == context_lock[id].holder = 0

LockFree(id) ==
    context_lock[id].holder = 0 /\ context_lock[id].waiters = <<>>

\* `request = await self.request_queue.get()` on a non-empty queue, then either
\* `return True` (a sentinel) or the entry of `async with context_lock[ctx_id]`.
\* Up to the first await that suspends this is one step of the event loop.
worker_job_get(c) ==
    /\ jpc[c] = "idle"
    /\ request_queue # <<>>
    /\ LET request == Head(request_queue) IN
         /\ request_queue' = Tail(request_queue)
         /\ IF request = None
            THEN /\ jout' = [jout EXCEPT ![c] = "True"]
                 /\ UNCHANGED <<jpc, jreq, context_lock, taken, orderVars>>
            ELSE /\ jreq' = [jreq EXCEPT ![c] = request]
                 /\ taken' = taken \cup {request}
                 /\ deq_order' = [deq_order EXCEPT ![request.id] = Append(@, request.n)]
                 /\ jout' = [jout EXCEPT ![c] = "none"]
                 /\ IF LockFree(request.id)
                    THEN /\ context_lock' = [context_lock EXCEPT ![request.id].holder = c]
                         /\ lock_order' = [lock_order EXCEPT ![request.id] =
                                               Append(@, request.n)]
                         /\ jpc' = [jpc EXCEPT ![c] = "to_thread"]
                    ELSE /\ context_lock' = [context_lock EXCEPT ![request.id].waiters =
                                                 Append(@, c)]
                         /\ jpc' = [jpc EXCEPT ![c] = "lock"]
                         /\ UNCHANGED lock_order
    /\ UNCHANGED <<store, jres, runs, responded, dropped, committed_dropped, respond_calls>>
    /\ UNCHANGED <<running, ifaceVars, buildVars, storeVars, runVars, cbVars, cleanupVars, pollVars, workerVars,
                   lifeVars>>

\* The lock was released and this caller is the first waiter: acquire() returns.
lock_acquired(c) ==
    /\ jpc[c] = "lock"
    /\ LET id == jreq[c].id IN
         /\ context_lock[id].holder = 0
         /\ context_lock[id].waiters # <<>>
         /\ Head(context_lock[id].waiters) = c
         /\ context_lock' = [context_lock EXCEPT ![id] =
                                [holder |-> c, waiters |-> Tail(@.waiters)]]
         /\ lock_order' = [lock_order EXCEPT ![id] = Append(@, jreq[c].n)]
    /\ jpc' = [jpc EXCEPT ![c] = "to_thread"]
    /\ UNCHANGED <<store, jreq, jres, jout, taken, runs, responded, dropped,
                   committed_dropped, respond_calls, deq_order>>
    /\ UNCHANGED <<request_queue, running, ifaceVars, buildVars, storeVars, runVars, cbVars, cleanupVars, pollVars,
                   workerVars, lifeVars>>

\* `await asyncio.to_thread(self._process_request, ...)`: the thread only calls
\* the coroutine function; wait_for then wraps the coroutine object in a task.
to_thread_done(c) ==
    /\ jpc[c] = "to_thread"
    /\ jpc' = [jpc EXCEPT ![c] = "wait_for"]
    /\ UNCHANGED <<context_lock, store, jreq, jres, jout, taken, runs, responded,
                   dropped, committed_dropped, respond_calls>>
    /\ UNCHANGED <<request_queue, running, ifaceVars, buildVars, storeVars, runVars, cbVars, cleanupVars, pollVars,
                   workerVars, lifeVars, orderVars>>

\* _process_request starts: `await pipeline._run_pipeline(update, ctx_id)`.
process_request_start(c) ==
    /\ jpc[c] = "wait_for"
    /\ jpc' = [jpc EXCEPT ![c] = "run"]
    /\ runs' = [runs EXCEPT ![jreq[c].n] = @ + 1]
    /\ UNCHANGED <<context_lock, store, jreq, jres, jout, taken, responded,
                   dropped, committed_dropped, respond_calls>>
    /\ UNCHANGED <<request_queue, running, ifaceVars, buildVars, storeVars, runVars, cbVars, cleanupVars, pollVars,
                   workerVars, lifeVars, orderVars>>

\* The last response of a conversation whose latest turn answered update n.
last_response(context) == [response_to |-> context]

\* What _respond is called with when the conversation held `before` and the
\* runner returned `context`.
RespondArgs_Stale(ctx_id, before, context) == <<ctx_id, last_response(before)>>

RespondArgs(ctx_id, before, context) == <<ctx_id, last_response(context)>>

\* The runner stores the conversation and returns it; _process_request goes on
\* to `await self._respond(ctx_id, context.last_response)`.
run_pipeline_return(c) ==
    /\ jpc[c] = "run"
    /\ store' = [store EXCEPT ![jreq[c].id] = jreq[c].n]
    /\ respond_calls' = [respond_calls EXCEPT ![jreq[c].n] =
                             Append(@, RespondArgs(jreq[c].id, store[jreq[c].id],
                                                   store'[jreq[c].id]))]
    /\ jpc' = [jpc EXCEPT ![c] = "respond"]
    /\ UNCHANGED <<context_lock, jreq, jres, jout, taken, runs, responded,
                   dropped, committed_dropped>>
    /\ UNCHANGED <<request_queue, running, ifaceVars, buildVars, storeVars, runVars, cbVars, cleanupVars, pollVars,
                   workerVars, lifeVars, orderVars>>

\* The runner raises: nothing is stored, nothing is sent.
run_pipeline_raise(c) ==
    /\ jpc[c] = "run"
    /\ jpc' = [jpc EXCEPT ![c] = "finish"]
    /\ jres' = [jres EXCEPT ![c] = "Exception"]
    /\ UNCHANGED <<context_lock, store, jreq, jout, taken, runs, responded,
                   dropped, committed_dropped, respond_calls>>
    /\ UNCHANGED <<request_queue, running, ifaceVars, buildVars, storeVars, runVars, cbVars, cleanupVars, pollVars,
                   workerVars, lifeVars, orderVars>>

\* _respond returns, and with it _process_request.
respond_done(c) ==
    /\ jpc[c] = "respond"
    /\ responded' = [responded EXCEPT ![jreq[c].n] = @ + 1]
    /\ jpc' = [jpc EXCEPT ![c] = "finish"]
    /\ jres' = [jres EXCEPT ![c] = "ok"]
    /\ UNCHANGED <<context_lock, store, jreq, jout, taken, runs, dropped,
                   committed_dropped, respond_calls>>
    /\ UNCHANGED <<request_queue, running, ifaceVars, buildVars, storeVars, runVars, cbVars, cleanupVars, pollVars,
                   workerVars, lifeVars, orderVars>>

\* The completed calls of _respond after wait_for's timeout: wait_for cancels
\* the task of _process_request, a _respond that is under way is cancelled at
\* its await and does not complete.
RespondedAfterTimeout_Completes(c) ==
    IF jpc[c] = "respond" THEN [responded EXCEPT ![jreq[c].n] = @ + 1] ELSE responded

RespondedAfterTimeout(c) == responded

\* wait_for's timeout fires while the task of _process_request is pending, in
\* the run or in _respond: the task is cancelled where it stands.
wait_for_timeout(c) ==
    /\ worker_timeout = "finite"
    /\ jpc[c] \in {"wait_for", "run", "respond"}
    /\ jpc' = [jpc EXCEPT ![c] = "finish"]
    /\ jres' = [jres EXCEPT ![c] = "TimeoutError"]
    /\ dropped' = dropped \cup {jreq[c]}
    /\ committed_dropped' = IF jpc[c] = "respond"
                            THEN committed_dropped \cup {jreq[c]}
                            ELSE committed_dropped
    /\ responded' = RespondedAfterTimeout(c)
    /\ UNCHANGED <<context_lock, store, jreq, jout, taken, runs, respond_calls>>
    /\ UNCHANGED <<request_queue, running, ifaceVars, buildVars, storeVars, runVars, cbVars, cleanupVars, pollVars,
                   workerVars, lifeVars, orderVars>>

\* What leaving _worker_job does to the queue: nothing, the request is gone.
QueueAfterJob_Requeue(c) ==
    IF jres[c] = "TimeoutError" THEN Append(request_queue, jreq[c]) ELSE request_queue

QueueAfterJob(c) == request_queue

\* `async with` releases the lock however its block is left.
LockAfterJob_KeptOnTimeout(c) ==
    IF jres[c] = "TimeoutError" THEN context_lock
    ELSE [context_lock EXCEPT ![jreq[c].id].holder = 0]

LockAfterJob(c) == [context_lock EXCEPT ![jreq[c].id].holder = 0]

\* The `async with` block is left (wait_for returned or raised): the lock is
\* released and _worker_job returns False or lets the exception through.
worker_job_exit(c) ==
    /\ jpc[c] = "finish"
    /\ context_lock' = LockAfterJob(c)
    /\ jout' = [jout EXCEPT ![c] = IF jres[c] = "ok" THEN "False" ELSE jres[c]]
    /\ jpc' = [jpc EXCEPT ![c] = "idle"]
    /\ jres' = [jres EXCEPT ![c] = "none"]
    /\ request_queue' = QueueAfterJob(c)
    /\ UNCHANGED <<store, jreq, taken, runs, responded, dropped, committed_dropped, respond_calls>>
    /\ UNCHANGED <<running, ifaceVars, buildVars, storeVars, runVars, cbVars, cleanupVars, pollVars, workerVars, lifeVars, orderVars>>

\* A queue as _polling_job can have left it: the k-th real request carries
\* update k, sentinels may stand anywhere.
RECURSIVE Renumber(_, _)
Renumber(q, k) ==
    IF q = <<>> THEN <<>>
    ELSE IF Head(q) = "None"
         THEN <<None>> \o Renumber(Tail(q), k)
         ELSE <<Request(Head(q), k)>> \o Renumber(Tail(q), k + 1)

QueueShapes == UNION {[1..len -> CtxIds \cup {"None"}] : len \in 0..MaxQueue}

InitJob ==
    /\ InitFields /\ InitPipeline /\ InitPoll /\ InitLife /\ InitJobs /\ InitCallback
    /\ InitStore /\ InitRun
    /\ \E q \in QueueShapes : request_queue = Renumber(q, 1)
    /\ number_of_workers = 0
    /\ cls = "Polling"
    /\ attrs = ConstructedAttrs(cls)
    /\ pipeline = TRUE
    /\ poll_timeout = "None"
    /\ worker_timeout \in {"None", "finite"}
    /\ py311 = TRUE
    /\ loop_pc = "none"
    /\ wpc = [w \in WorkerIds |-> "none"]
    /\ unawaited = {}

NextJob ==
    \E c \in Callers :
        \/ worker_job_get(c)
        \/ lock_acquired(c)
        \/ to_thread_done(c)
        \/ process_request_start(c)
        \/ run_pipeline_return(c)
        \/ run_pipeline_raise(c)
        \/ respond_done(c)
        \/ wait_for_timeout(c)
        \/ worker_job_exit(c)

SpecJob == InitJob /\ [][NextJob]_vars


\* ------------------------------------------------ _polling_loop (lines 270-292)
TaskDone == task \in {"done_ok", "done_exc", "cancelled"}

\* How the task that runs the loop ends when the loop is left for `cause`.
TaskEnd(cause) ==
    CASE cause \in {"predicate", "running"} -> "done_ok"
      [] cause = "cancelled" -> "cancelled"
      [] OTHER -> "done_exc"

\* The sentinels on record when `self.running = False` (line 281) is executed:
\* those put before the finally block, the for loop of lines 291-292 comes
\* after the assignment.
SentinelsAtClear_AfterPut == sentinels_put + number_of_workers

SentinelsAtClear == sentinels_put

\* `for i in range(self.number_of_workers): self.request_queue.put_nowait(None)`
sentinels_two == <<None, None>>

sentinels == [i \in 1..number_of_workers |-> None]

\* The finally block: running is cleared, then the sentinels are put. (loop()
\* is called once more there, only to choose the log line.)
polling_loop_finally(cause) ==
    /\ running' = FALSE
    /\ cleared_with' = SentinelsAtClear
    /\ request_queue' = request_queue \o sentinels
    /\ sentinels_put' = sentinels_put + Len(sentinels)
    /\ loop_pc' = "exited"
    /\ loop_exit' = cause
    /\ task' = IF task \in {"start", "running"} THEN TaskEnd(cause) ELSE task

\* `while loop() and self.running:` with loop() returning b; a true test goes
\* on to `await asyncio.shield(self._polling_job(poll_timeout))`, which starts
\* the job as a task of its own.
LoopCondition_IgnoreRunning(b) == b

LoopCondition(b) == b /\ running

polling_loop_test(b) ==
    /\ pred_false' = (pred_false \/ ~b)
    /\ IF LoopCondition(b)
       THEN /\ loop_pc' = "job"
            /\ job_pc' = "fetch"
            /\ task' = IF task = "start" THEN "running" ELSE task
            /\ UNCHANGED <<request_queue, running, sentinels_put, cleared_with, loop_exit>>
       ELSE /\ polling_loop_finally(IF b THEN "running" ELSE "predicate")
            /\ UNCHANGED job_pc

\* The first step of the task whose code begins with the loop.
polling_loop_start ==
    /\ loop_pc = "start"
    /\ ~cancel_req
    /\ \E b \in BOOLEAN : polling_loop_test(b)
    /\ UNCHANGED <<cancel_req, enq, enq_running, received_updates, fieldVars, finished_working, buildVars, storeVars, runVars, cbVars, cleanupVars,
                   workerVars, lifeVars, jobVars>>

\* The exceptions a finished _polling_job can hand to the loop that awaits it.
JobExceptions == {"TimeoutError", "Exception", "BaseException"}

\* The awaited job is done and its locals are gone: on to `await asyncio.sleep(timeout)`, or the job's
\* exception leaves the loop through the finally block (the try statement of
\* _polling_loop has no except clause).
polling_job_done ==
    /\ loop_pc = "job"
    /\ ~cancel_req
    /\ job_pc \in {"done_ok"} \cup JobExceptions
    /\ job_pc' = "none"
    /\ received_updates' = NoUpdates
    /\ IF job_pc = "done_ok"
       THEN /\ loop_pc' = "sleep"
            /\ UNCHANGED <<request_queue, running, sentinels_put, cleared_with, loop_exit, task>>
       ELSE polling_loop_finally(job_pc)
    /\ UNCHANGED <<cancel_req, enq, enq_running, pred_false, fieldVars, finished_working,
                   buildVars, storeVars, runVars, cbVars, cleanupVars, workerVars, lifeVars, jobVars>>

\* The sleep is over: the while test again.
polling_loop_wake ==
    /\ loop_pc = "sleep"
    /\ ~cancel_req
    /\ \E b \in BOOLEAN : polling_loop_test(b)
    /\ UNCHANGED <<cancel_req, enq, enq_running, received_updates, fieldVars, finished_working, buildVars, storeVars, runVars, cbVars, cleanupVars,
                   workerVars, lifeVars, jobVars>>

\* Without the shield the cancellation reaches the job at its await.
JobAfterCancel_Unshielded(j) == IF j = "fetch" THEN "CancelledError" ELSE j

\* `await asyncio.shield(...)`: cancelling the awaiting task cancels the outer
\* future of the shield only, the job's own task is left as it is.
JobAfterCancel(j) == j

\* CancelledError is thrown into the loop at its await; the shielded job, if
\* one is in flight, goes on by itself.
polling_loop_cancelled ==
    /\ loop_pc \in {"job", "sleep"}
    /\ cancel_req
    /\ polling_loop_finally("cancelled")
    /\ job_pc' = JobAfterCancel(job_pc)
    /\ UNCHANGED <<cancel_req, enq, enq_running, received_updates, pred_false, fieldVars, finished_working,
                   buildVars, storeVars, runVars, cbVars, cleanupVars, workerVars, lifeVars, jobVars>>

\* A task cancelled before its first step never runs its coroutine.
task_cancelled_before_start ==
    /\ cancel_req
    /\ task = "start" \/ loop_pc = "start"
    /\ task' = IF task = "start" THEN "cancelled" ELSE task
    /\ loop_pc' = IF loop_pc = "start" THEN "cancelled" ELSE loop_pc
    /\ UNCHANGED <<request_queue, running, cancel_req, loop_exit, job_pc, enq,
                   enq_running, received_updates, sentinels_put, cleared_with, pred_false, fieldVars, finished_working,
                   buildVars, storeVars, runVars, cbVars, cleanupVars, workerVars, lifeVars, jobVars>>

\* ------------------------------------------------- _polling_job (lines 261-268)
\* What _get_updates may return: None, or a list of (ctx_id, update) pairs
\* (here the list of their ctx_ids; the updates are numbered as they arrive).
FetchResults ==
    {[none |-> TRUE, ids |-> <<>>]} \cup
    {[none |-> FALSE, ids |-> ids] :
        ids \in UNION {[1..len -> CtxIds] : len \in 0..(MaxQueue - enq)}}

\* `if received_updates is not None: for update in received_updates:
\* await self.request_queue.put(update)`; put on an unbounded queue never
\* suspends.
Enqueued_Reversed(updates) ==
    IF updates.none THEN <<>>
    ELSE [i \in 1..Len(updates.ids) |->
             Request(updates.ids[Len(updates.ids) + 1 - i], enq + Len(updates.ids) + 1 - i)]

Enqueued_At(updates, k) ==
    IF updates.none THEN <<>>
    ELSE [i \in 1..Len(updates.ids) |-> Request(updates.ids[i], k + i)]

Enqueued(updates) == Enqueued_At(updates, enq)

get_updates_return ==
    /\ job_pc = "fetch"
    /\ \E updates \in FetchResults :
         /\ request_queue' = request_queue \o Enqueued(updates)
         /\ enq' = enq + Len(Enqueued(updates))
         /\ enq_running' = IF running THEN enq + Len(Enqueued(updates)) ELSE enq_running
         /\ received_updates' = updates
    /\ job_pc' = "done_ok"
    /\ UNCHANGED <<running, cancel_req, loop_pc, loop_exit, sentinels_put, cleared_with, pred_false,
                   ifaceVars, buildVars, storeVars, runVars, cbVars, cleanupVars, workerVars, lifeVars, jobVars>>

\* wait_for raises asyncio.TimeoutError; `except TimeoutError` catches it only
\* where that is the builtin class (Python 3.11 on).
get_updates_timeout ==
    /\ job_pc = "fetch"
    /\ poll_timeout = "finite"
    /\ job_pc' = IF py311 THEN "done_ok" ELSE "TimeoutError"
    /\ UNCHANGED <<request_queue, running, cancel_req, loop_pc, loop_exit, enq,
                   enq_running, received_updates, sentinels_put, cleared_with, pred_false, ifaceVars, buildVars, storeVars, runVars, cbVars, cleanupVars, workerVars,
                   lifeVars, jobVars>>

\* _get_updates raises anything else, an ordinary exception or a
\* process-terminating one (KeyboardInterrupt, SystemExit): _polling_job has no
\* handler for it.
get_updates_raise ==
    /\ job_pc = "fetch"
    /\ \E e \in {"Exception", "BaseException"} : job_pc' = e
    /\ UNCHANGED <<request_queue, running, cancel_req, loop_pc, loop_exit, enq,
                   enq_running, received_updates, sentinels_put, cleared_with, pred_false, ifaceVars, buildVars, storeVars, runVars, cbVars, cleanupVars, workerVars,
                   lifeVars, jobVars>>

\* ------------------------------------------------------ _worker (lines 240-250)
\* `no_more_jobs = self._worker_job(...)` is not awaited: no_more_jobs is a
\* coroutine object, and `if no_more_jobs:` is true of every object.
no_more_jobs_false == FALSE

no_more_jobs == TRUE

\* One pass of `while self.running or not self.request_queue.empty()`. The
\* loop body has no await: the worker task runs to its end in one step.
worker_step(w) ==
    /\ wpc[w] = "start"
    /\ IF running \/ request_queue # <<>>
       THEN /\ unawaited' = unawaited \cup {w}
            /\ wpc' = [wpc EXCEPT ![w] = IF no_more_jobs THEN "done" ELSE "start"]
       ELSE /\ wpc' = [wpc EXCEPT ![w] = "done"]
            /\ UNCHANGED unawaited
    /\ UNCHANGED <<request_queue, running, ifaceVars, buildVars, storeVars, runVars, cbVars, cleanupVars, pollVars,
                   lifeVars, jobVars>>


\* ------------------------------------------------------ connect (lines 294-308)
\* PollingMessengerInterface.connect with number_of_workers >= 1. In the first
\* pass of the for loop asyncio.shield wraps _worker(...) in a task and returns
\* a Future; asyncio.create_task accepts only a coroutine and raises TypeError.
\* Nothing is appended to _worker_tasks and _polling_loop is never reached.
\* (With number_of_workers = 0 the for loop is empty and the task's first step
\* is polling_loop_start.)
connect_spawn ==
    /\ cls = "Polling"
    /\ number_of_workers >= 1
    /\ task = "start"
    /\ ~cancel_req
    /\ wpc' = [wpc EXCEPT ![1] = "start"]
    /\ task' = "done_exc"
    /\ UNCHANGED <<request_queue, running, fieldVars, finished_working, buildVars, storeVars, runVars, cbVars, cleanupVars,
                   pollVars, unawaited, lifeVars, jobVars>>

\* MessengerInterface.connect is abstract (lines 44-60): the connect of some
\* other subclass returns, raises, or awaits something.
connect_abstract ==
    /\ cls = "Base"
    /\ task \in {"start", "running"}
    /\ ~cancel_req
    /\ \E t \in {"running", "done_ok", "done_exc"} :
         /\ t = "running" => task = "start"
         /\ task' = t
    /\ UNCHANGED <<request_queue, running, fieldVars, finished_working, buildVars, storeVars, runVars, cbVars, cleanupVars,
                   pollVars, workerVars, lifeVars, jobVars>>

\* CancelledError is thrown into that connect at its await: it lets it through,
\* or catches it and returns or raises.
connect_abstract_cancelled ==
    /\ cls = "Base"
    /\ task = "running"
    /\ cancel_req
    /\ \E t \in {"cancelled", "done_ok", "done_exc"} : task' = t
    /\ UNCHANGED <<request_queue, running, fieldVars, finished_working, buildVars, storeVars, runVars, cbVars, cleanupVars,
                   pollVars, workerVars, lifeVars, jobVars>>

\* ------------------------------------------------------ cleanup (lines 62-69, 314-318)
\* MessengerInterface.cleanup does nothing. PollingMessengerInterface.cleanup
\* awaits asyncio.wait(self._worker_tasks), which raises ValueError for an
\* empty list.
cleanup_result ==
    IF cls = "Polling" /\ worker_tasks = 0 THEN "ValueError" ELSE "ok"

\* cleanup() called directly, at any point of the lifecycle. Neither cleanup
\* assigns a field of the interface. (With tasks in _worker_tasks the call
\* would suspend in asyncio.wait; nothing ever appends one, see connect.)
cleanup_call ==
    /\ Len(cleanup_outs) < MaxCleanups
    /\ cleanup_outs' = Append(cleanup_outs, cleanup_result)
    /\ UNCHANGED <<request_queue, running, ifaceVars, buildVars, storeVars, runVars, cbVars, rif_cleanup, pollVars,
                   workerVars, lifeVars, jobVars>>

\* ------------------------------------------- run_in_foreground (lines 71-115)
\* Up to `await self.task`. CallbackMessengerInterface.connect (line 341)
\* takes pipeline_runner only: called with the keyword arguments of lines
\* 98-104 it raises TypeError before any task is created.
run_in_foreground_call ==
    /\ rif_pc = "idle"
    /\ running_in_foreground' = TRUE
    /\ pipeline' = TRUE
    /\ IF cls = "Callback"
       THEN /\ attrs' = attrs \cup {"running_in_foreground", "pipeline"}
            /\ rif_pc' = "raised"
            /\ UNCHANGED <<task, loop_pc>>
       ELSE /\ attrs' = attrs \cup {"running_in_foreground", "pipeline", "task"}
            /\ task' = "start"
            /\ loop_pc' = IF cls = "Polling" /\ number_of_workers = 0
                          THEN "start" ELSE loop_pc
            /\ rif_pc' = "await_task"
    /\ UNCHANGED <<request_queue, running, number_of_workers, worker_tasks, cls,
                   finished_working, buildVars, storeVars, runVars, cbVars, cleanupVars, cancel_req, loop_exit, job_pc, enq,
                   enq_running, received_updates, sentinels_put, cleared_with, pred_false, workerVars, sd_pc, sd_running_at_call,
                   sd_fin_at_call, sd_seen, sd_fin_at_wake, jobVars>>

\* `finally: await self.cleanup()` and, when nothing is being raised,
\* `self.finished_working = True`.
run_in_foreground_finish(raising) ==
    /\ rif_cleanup' = cleanup_result
    /\ rif_pc' = IF raising \/ cleanup_result # "ok" THEN "raised" ELSE "returned"
    /\ finished_working' = (finished_working \/ (~raising /\ cleanup_result = "ok"))
    /\ UNCHANGED cleanup_outs

\* `await self.task` ends. The task's waiters are woken by callbacks scheduled
\* when the task finishes, after whatever the task itself has scheduled: a
\* worker task started by connect has its first step before them.
run_in_foreground_resume ==
    /\ rif_pc = "await_task"
    /\ TaskDone
    /\ \A w \in WorkerIds : wpc[w] # "start"
    /\ IF task = "cancelled"
       THEN /\ rif_pc' = "sleep0"
            /\ UNCHANGED <<finished_working, cleanupVars>>
       ELSE run_in_foreground_finish(task = "done_exc")
    /\ UNCHANGED <<request_queue, running, fieldVars, task, buildVars, storeVars, runVars, cbVars, pollVars,
                   workerVars, sd_pc, sd_running_at_call, sd_fin_at_call, sd_seen,
                   sd_fin_at_wake, jobVars>>

\* `except asyncio.CancelledError: await asyncio.sleep(0)` is over.
run_in_foreground_slept ==
    /\ rif_pc = "sleep0"
    /\ run_in_foreground_finish(FALSE)
    /\ UNCHANGED <<request_queue, running, fieldVars, task, buildVars, storeVars, runVars, cbVars, pollVars,
                   workerVars, sd_pc, sd_running_at_call, sd_fin_at_call, sd_seen,
                   sd_fin_at_wake, jobVars>>

\* ----------------------------------------------------- shutdown (lines 117-134)
\* What `try: await self.task / except CancelledError: if not
\* self.finished_working: raise CancelledError` makes of the task's end.
shutdown_outcome_never_swallow(t, fin) ==
    CASE t = "done_ok" -> "returned"
      [] t = "cancelled" -> "raised_cancel"
      [] OTHER -> "raised_exc"

shutdown_outcome_always_swallow(t, fin) ==
    CASE t \in {"done_ok", "cancelled"} -> "returned"
      [] OTHER -> "raised_exc"

shutdown_outcome(t, fin) ==
    CASE t = "done_ok" -> "returned"
      [] t = "cancelled" -> IF fin THEN "returned" ELSE "raised_cancel"
      [] OTHER -> "raised_exc"

\* self.running once shutdown() is at its await or has raised: line 123
\* assigns False before `self.task.cancel()` (line 124) can raise.
RunningAfterShutdown_CancelFirst == IF task = "None" THEN running ELSE FALSE

RunningAfterShutdown == FALSE

\* shutdown() up to `await self.task`; the await does not suspend when the
\* task is already done. With self.task = None, or on an object that has no
\* attribute task, `self.task.cancel()` raises AttributeError after running
\* was cleared.
shutdown_call(s) ==
    /\ sd_pc[s] = "idle"
    /\ running' = RunningAfterShutdown
    /\ attrs' = attrs \cup {"running"}
    /\ sd_fin_at_call' = [sd_fin_at_call EXCEPT ![s] = finished_working]
    /\ IF "task" \notin attrs \/ task = "None"
       THEN /\ sd_pc' = [sd_pc EXCEPT ![s] = "raised_attr"]
            /\ UNCHANGED <<cancel_req, sd_running_at_call, sd_seen, sd_fin_at_wake>>
       ELSE IF TaskDone
            THEN /\ sd_pc' = [sd_pc EXCEPT ![s] = shutdown_outcome(task, finished_working)]
                 /\ sd_seen' = [sd_seen EXCEPT ![s] = task]
                 /\ sd_fin_at_wake' = [sd_fin_at_wake EXCEPT ![s] = finished_working]
                 /\ UNCHANGED <<cancel_req, sd_running_at_call>>
            ELSE /\ cancel_req' = TRUE
                 /\ sd_pc' = [sd_pc EXCEPT ![s] = "await_task"]
                 /\ sd_running_at_call' = [sd_running_at_call EXCEPT ![s] = TRUE]
                 /\ UNCHANGED <<sd_seen, sd_fin_at_wake>>
    /\ UNCHANGED <<request_queue, number_of_workers, worker_tasks, running_in_foreground, pipeline, cls,
                   finished_working, task, buildVars, storeVars, runVars, cbVars, cleanupVars, loop_pc, loop_exit, job_pc,
                   enq, enq_running, received_updates, sentinels_put, cleared_with, pred_false, workerVars, rif_pc, jobVars>>

\* `await self.task` ends in shutdown().
shutdown_resume(s) ==
    /\ sd_pc[s] = "await_task"
    /\ TaskDone
    /\ \A w \in WorkerIds : wpc[w] # "start"
    /\ sd_pc' = [sd_pc EXCEPT ![s] = shutdown_outcome(task, finished_working)]
    /\ sd_seen' = [sd_seen EXCEPT ![s] = task]
    /\ sd_fin_at_wake' = [sd_fin_at_wake EXCEPT ![s] = finished_working]
    /\ UNCHANGED <<request_queue, running, ifaceVars, buildVars, storeVars, runVars, cbVars, cleanupVars, pollVars, workerVars,
                   rif_pc, sd_running_at_call, sd_fin_at_call, jobVars>>

\* Task.cancel() on the task that runs _polling_loop, by whoever holds it.
loop_task_cancel ==
    /\ loop_pc \in {"start", "job", "sleep"}
    /\ ~cancel_req
    /\ cancel_req' = TRUE
    /\ UNCHANGED <<request_queue, running, ifaceVars, buildVars, storeVars, runVars, cbVars, cleanupVars, loop_pc, loop_exit,
                   job_pc, enq, enq_running, received_updates, sentinels_put, cleared_with, pred_false, workerVars, lifeVars,
                   jobVars>>

\* ------------------------------- CallbackMessengerInterface (lines 333-360)
\* The context a PipelineRunnerFunction returns for its arguments: it has the
\* id ctx_id, or a generated one when ctx_id is None.
PipelineRunner(r, message, ctx_id, update_ctx_misc) ==
    [by |-> r, id |-> IF ctx_id = "None" THEN "uuid4" ELSE ctx_id,
     request |-> message, misc |-> update_ctx_misc]

\* `self._pipeline_runner(request, ctx_id, update_ctx_misc)`: what
\* on_request_async hands to the runner.
runner_call_without_misc(request, ctx_id, update_ctx_misc) ==
    [message |-> request, ctx_id |-> ctx_id, update_ctx_misc |-> "None"]

runner_call(request, ctx_id, update_ctx_misc) ==
    [message |-> request, ctx_id |-> ctx_id, update_ctx_misc |-> update_ctx_misc]

\* `self._pipeline_runner = pipeline_runner`
callback_connect ==
    /\ \E r \in Runners : pipeline_runner' = r
    /\ UNCHANGED <<cb_pc, cb_in, cb_out, runner_log>>
    /\ UNCHANGED <<request_queue, running, ifaceVars, buildVars, storeVars, runVars, cleanupVars, pollVars,
                   workerVars, lifeVars, jobVars>>

\* (The calls are numbered in the order in which they are made.)
\* on_request_async is called (kind "async"), or on_request from synchronous
\* code (kind "sync"), where asyncio.run starts a loop that runs
\* on_request_async: the runner is called, or `None(...)` raises TypeError
\* when connect has stored none.
on_request_call(d) ==
    /\ cb_pc[d] = "idle"
    /\ IF d = 1 THEN TRUE ELSE cb_pc[d - 1] # "idle"
    /\ \E kind \in {"async", "sync"}, a \in CallArgs :
         /\ cb_in' = [cb_in EXCEPT ![d] =
                         [kind |-> kind, request |-> a.request, ctx_id |-> a.ctx_id,
                          update_ctx_misc |-> a.update_ctx_misc]]
         /\ IF pipeline_runner = "None"
            THEN /\ cb_pc' = [cb_pc EXCEPT ![d] = "raised"]
                 /\ cb_out' = [cb_out EXCEPT ![d] = [kind |-> "TypeError", ctx |-> NoContext]]
                 /\ UNCHANGED runner_log
            ELSE /\ cb_pc' = [cb_pc EXCEPT ![d] = "in_runner"]
                 /\ runner_log' = Append(runner_log,
                        [d |-> d, runner |-> pipeline_runner,
                         args |-> runner_call(a.request, a.ctx_id, a.update_ctx_misc)])
                 /\ UNCHANGED cb_out
    /\ UNCHANGED pipeline_runner
    /\ UNCHANGED <<request_queue, running, ifaceVars, buildVars, storeVars, runVars, cleanupVars, pollVars,
                   workerVars, lifeVars, jobVars>>

\* on_request is called from a coroutine: asyncio.run raises RuntimeError in a
\* thread whose event loop is running, and on_request_async never starts.
on_request_in_loop(d) ==
    /\ cb_pc[d] = "idle"
    /\ IF d = 1 THEN TRUE ELSE cb_pc[d - 1] # "idle"
    /\ \E a \in CallArgs :
         cb_in' = [cb_in EXCEPT ![d] =
                      [kind |-> "sync", request |-> a.request, ctx_id |-> a.ctx_id,
                       update_ctx_misc |-> a.update_ctx_misc]]
    /\ cb_pc' = [cb_pc EXCEPT ![d] = "raised"]
    /\ cb_out' = [cb_out EXCEPT ![d] = [kind |-> "RuntimeError", ctx |-> NoContext]]
    /\ UNCHANGED <<pipeline_runner, runner_log>>
    /\ UNCHANGED <<request_queue, running, ifaceVars, buildVars, storeVars, runVars, cleanupVars, pollVars,
                   workerVars, lifeVars, jobVars>>

\* The log entry of call d.
LogEntry(d) == CHOOSE i \in 1..Len(runner_log) : runner_log[i].d = d

\* The awaited runner returns its context: `return await ...` hands it on, and
\* so does asyncio.run.
runner_return(d) ==
    /\ cb_pc[d] = "in_runner"
    /\ cb_pc' = [cb_pc EXCEPT ![d] = "returned"]
    /\ LET call == runner_log[LogEntry(d)] IN
         cb_out' = [cb_out EXCEPT ![d] =
                       [kind |-> "context",
                        ctx |-> PipelineRunner(call.runner, call.args.message,
                                               call.args.ctx_id,
                                               call.args.update_ctx_misc)]]
    /\ UNCHANGED <<pipeline_runner, cb_in, runner_log>>
    /\ UNCHANGED <<request_queue, running, ifaceVars, buildVars, storeVars, runVars, cleanupVars, pollVars,
                   workerVars, lifeVars, jobVars>>

\* The awaited runner raises: nothing catches the exception on its way out.
runner_raise(d) ==
    /\ cb_pc[d] = "in_runner"
    /\ cb_pc' = [cb_pc EXCEPT ![d] = "raised"]
    /\ cb_out' = [cb_out EXCEPT ![d] = [kind |-> "RunnerError", ctx |-> NoContext]]
    /\ UNCHANGED <<pipeline_runner, cb_in, runner_log>>
    /\ UNCHANGED <<request_queue, running, ifaceVars, buildVars, storeVars, runVars, cleanupVars, pollVars,
                   workerVars, lifeVars, jobVars>>
\* ------------------------ SQLContextStorage (src/dff/context_storages/sql.py)
\* The rows whose storage_key column equals key and is not NULL.
RowsOf(key) ==
    {p \in DOMAIN contexts_table :
        /\ contexts_table[p].storage_key = key
        /\ contexts_table[p].storage_key # NULL}

\* _read_pac_ctx with `order_by(updated_at.asc())`.
read_pac_ctx_Oldest(storage_key) ==
    IF RowsOf(storage_key) = {}
    THEN [data |-> NoContextData, primary_id |-> NULL]
    ELSE LET p == CHOOSE p \in RowsOf(storage_key) :
                      \A q \in RowsOf(storage_key) :
                          contexts_table[p].updated_at <= contexts_table[q].updated_at
         IN [data |-> contexts_table[p].data, primary_id |-> p]

\* _read_pac_ctx: the packed data and primary id of the row of storage_key
\* that was updated last, or (dict(), None).
read_pac_ctx(storage_key) ==
    IF RowsOf(storage_key) = {}
    THEN [data |-> NoContextData, primary_id |-> NULL]
    ELSE LET p == CHOOSE p \in RowsOf(storage_key) :
                      \A q \in RowsOf(storage_key) :
                          contexts_table[q].updated_at <= contexts_table[p].updated_at
         IN [data |-> contexts_table[p].data, primary_id |-> p]

\* _write_pac_ctx: insert the row of primary_id or, when there is one, update
\* its data, storage_key and updated_at.
write_pac_ctx(data, updated, storage_key, primary_id) ==
    [p \in DOMAIN contexts_table \cup {primary_id} |->
        IF p = primary_id
        THEN [storage_key |-> storage_key, data |-> data, updated_at |-> updated]
        ELSE contexts_table[p]]

\* len_async without the `isnot(None)` filter: NULL counts as a key.
len_async_CountsNull ==
    Cardinality({contexts_table[p].storage_key : p \in DOMAIN contexts_table})

\* len_async: the number of distinct storage keys that are not NULL.
len_async ==
    Cardinality({contexts_table[p].storage_key : p \in DOMAIN contexts_table} \ {NULL})

\* contains_async: the count of the (at most one) selected row is not 0.
contains_async(key) == RowsOf(key) # {}

\* What the storage keeps of a context: its last RequestsKept requests.
PackedContext(ctx) ==
    [ctx EXCEPT !.requests =
        {k \in ctx.requests :
            Cardinality({j \in ctx.requests : j > k}) < RequestsKept}]

\* db.get(key): the context read for key, or None when there is no row.
get_async(key) ==
    IF read_pac_ctx(key).primary_id = NULL THEN NoContextData
    ELSE read_pac_ctx(key).data

\* db[key] = ctx, for a Context object that is new or belongs to key.
set_item(key, p, ctx) ==
    /\ clock < MaxWrites
    /\ ctx_storage_key[p] \in {NULL, key}
    /\ clock' = clock + 1
    /\ contexts_table' = write_pac_ctx(PackedContext(ctx), clock + 1, key, p)
    /\ ctx_storage_key' = [ctx_storage_key EXCEPT ![p] = key]
    /\ db_op' = [op |-> "set", key |-> key, ctx |-> ctx,
                 contained |-> contains_async(key), len |-> len_async]
    /\ UNCHANGED <<messengerVars, runVars, deleted>>

\* del_item_async: the storage_key of the rows of key becomes NULL.
del_item_async(key) ==
    /\ contexts_table' =
           [p \in DOMAIN contexts_table |->
               IF contexts_table[p].storage_key = key
               THEN [contexts_table[p] EXCEPT !.storage_key = NULL]
               ELSE contexts_table[p]]
    /\ db_op' = [op |-> "del", key |-> key, ctx |-> NoContextData,
                 contained |-> contains_async(key), len |-> len_async]
    /\ deleted' = deleted \cup {key}
    /\ UNCHANGED <<messengerVars, runVars, ctx_storage_key, clock>>

\* clear_async: every storage_key becomes NULL.
clear_async ==
    /\ contexts_table' =
           [p \in DOMAIN contexts_table |->
               [contexts_table[p] EXCEPT !.storage_key = NULL]]
    /\ db_op' = [op |-> "clear", key |-> NULL, ctx |-> NoContextData,
                 contained |-> FALSE, len |-> len_async]
    /\ UNCHANGED <<messengerVars, runVars, ctx_storage_key, clock, deleted>>

NextStore ==
    \/ \E key \in StorageKeys, p \in PrimaryIds, ctx \in Contexts : set_item(key, p, ctx)
    \/ \E key \in StorageKeys : del_item_async(key)
    \/ clear_async

\* ------------- the pipeline run (spec 4.1, 4.2; src/chatsky/core/service/types.py)
\* register(handler, global_stage): the handlers in registration order, one
\* of each stage in turn; a handler is named by its place in this order.
Registered ==
    [i \in 1..(4 * HandlersPerStage) |-> StageOrder[((i - 1) % 4) + 1]]

\* The handlers of a stage, in registration order.
HandlersOf(stage) ==
    SelectSeq([i \in 1..Len(Registered) |-> i], LAMBDA i : Registered[i] = stage)

\* The local stage of a handler fired at a global stage.
LocalStage(stage) == IF stage \in ExtraHandlerType THEN stage ELSE "UNDEFINED"

\* ExtraHandlerRuntimeInfo of handler h fired at a stage for component c
\* (0: the whole pipeline).
ExtraHandlerRuntimeInfo(h, stage, c) ==
    [func |-> h, global |-> stage, stage |-> LocalStage(stage), component |-> c]

\* get(path): NOT_RUN is the default for a path that is not in the map.
get(path) ==
    IF path \in DOMAIN service_states THEN service_states[path] ELSE "NOT_RUN"

mark(path, state) ==
    [p \in DOMAIN service_states \cup {path} |->
        IF p = path THEN state ELSE service_states[p]]

\* mark_running that leaves a FINISHED or FAILED path as it is.
mark_running_KeepsTerminal(path) ==
    IF get(path) \in {"FINISHED", "FAILED"} THEN service_states
    ELSE mark(path, "RUNNING")

mark_running(path) == mark(path, "RUNNING")
mark_finished(path) == mark(path, "FINISHED")
mark_failed(path) == mark(path, "FAILED")

\* A body that throws leaves its path RUNNING.
StateAfterBody_RunningOnRaise(path, outcome) ==
    IF outcome = "raised" THEN service_states ELSE mark_finished(path)

\* Exactly one of mark_finished / mark_failed after the body, on every exit
\* path.
StateAfterBody(path, outcome) ==
    IF outcome = "raised" THEN mark_failed(path) ELSE mark_finished(path)

\* A read that enters the default into the map.
MapAfterRead_AddsEntry(path) == mark(path, get(path))

\* A read does not mutate the map.
MapAfterRead(path) == service_states

\* A failed handler ends its stage.
NextHandler_AbortOnFailure(ok) ==
    IF ok THEN hidx + 1 ELSE Len(HandlersOf(run_pc)) + 1

\* A handler failure is caught and logged: the next sibling is fired.
NextHandler(ok) == hidx + 1

\* AFTER_ALL handlers fired only when no component failed.
StageAfterComponents_SkipOnFailure ==
    IF \E c \in Components : get(c) = "FAILED" THEN "done" ELSE "AFTER_ALL"

\* After the last component: all AFTER_ALL handlers, whether or not a
\* component failed.
StageAfterComponents == "AFTER_ALL"

\* Where the run goes once the handlers of its stage are through.
AfterStage ==
    CASE run_pc = "BEFORE_ALL" -> [pc |-> "BEFORE", comp |-> 1]
      [] run_pc = "BEFORE" -> [pc |-> "start", comp |-> comp]
      [] run_pc = "AFTER" ->
            IF comp < NumComponents THEN [pc |-> "BEFORE", comp |-> comp + 1]
            ELSE [pc |-> StageAfterComponents, comp |-> 0]
      [] run_pc = "AFTER_ALL" -> [pc |-> "done", comp |-> 0]

\* A pipeline run of the conversation starts: the BEFORE_ALL handlers first.
run_start ==
    /\ run_pc \in {"idle", "done"}
    /\ runs_done < MaxRuns
    /\ run_pc' = "BEFORE_ALL"
    /\ comp' = 0
    /\ hidx' = 1
    /\ fired' = <<>>
    /\ body_out' = [c \in Components |-> "none"]
    /\ handler_failures' = {}
    /\ UNCHANGED <<messengerVars, storeVars, service_states, runs_done, invoked, prior,
                   last_read>>

\* The next handler of the stage is called, and returns or throws.
handler_fire(ok) ==
    /\ run_pc \in GlobalExtraHandlerType
    /\ hidx <= Len(HandlersOf(run_pc))
    /\ fired' = Append(fired, ExtraHandlerRuntimeInfo(HandlersOf(run_pc)[hidx], run_pc, comp))
    /\ handler_failures' =
           IF ok THEN handler_failures ELSE handler_failures \cup {run_pc}
    /\ IF NextHandler(ok) <= Len(HandlersOf(run_pc))
       THEN /\ hidx' = NextHandler(ok)
            /\ UNCHANGED <<run_pc, comp, runs_done>>
       ELSE /\ hidx' = 1
            /\ run_pc' = AfterStage.pc
            /\ comp' = AfterStage.comp
            /\ runs_done' = IF AfterStage.pc = "done" THEN runs_done + 1 ELSE runs_done
    /\ UNCHANGED <<messengerVars, storeVars, service_states, body_out, invoked, prior,
                   last_read>>

\* The component is invoked: mark_running before its body.
component_start ==
    /\ run_pc = "start"
    /\ service_states' = mark_running(comp)
    /\ prior' = [prior EXCEPT ![comp] = get(comp)]
    /\ invoked' = invoked \cup {comp}
    /\ run_pc' = "body"
    /\ UNCHANGED <<messengerVars, storeVars, comp, hidx, runs_done, fired, body_out,
                   handler_failures, last_read>>

\* The body returns or throws; the AFTER handlers come next either way.
component_body(outcome) ==
    /\ run_pc = "body"
    /\ service_states' = StateAfterBody(comp, outcome)
    /\ body_out' = [body_out EXCEPT ![comp] = outcome]
    /\ fired' = Append(fired, ExtraHandlerRuntimeInfo(0, "BODY", comp))
    /\ run_pc' = "AFTER"
    /\ hidx' = 1
    /\ UNCHANGED <<messengerVars, storeVars, comp, runs_done, handler_failures, invoked,
                   prior, last_read>>

\* A component or a handler reads the execution state of a path.
read_state(path) ==
    /\ last_read' = [path |-> path, state |-> get(path)]
    /\ service_states' = MapAfterRead(path)
    /\ UNCHANGED <<messengerVars, storeVars, run_pc, comp, hidx, runs_done, fired,
                   body_out, handler_failures, invoked, prior>>

NextRun ==
    \/ run_start
    \/ \E ok \in BOOLEAN : handler_fire(ok)
    \/ component_start
    \/ \E outcome \in {"returned", "raised"} : component_body(outcome)
    \/ \E path \in Paths : read_state(path)

\* ------------------------------------------------------------ specifications
InitIdle ==
    /\ InitFields /\ InitPipeline /\ InitPoll /\ InitLife /\ InitJobs /\ InitCallback
    /\ InitStore /\ InitRun
    /\ request_queue = <<>>
    /\ worker_timeout = "None"
    /\ poll_timeout \in {"None", "finite"}
    /\ py311 \in BOOLEAN
    /\ unawaited = {}

\* The interface object right after construction.
Init ==
    /\ InitIdle
    /\ cls \in {"Base", "Polling", "Callback"}
    /\ attrs = ConstructedAttrs(cls)
    /\ number_of_workers \in 0..MaxWorkers
    /\ cls # "Polling" => number_of_workers = 0
    /\ pipeline = FALSE
    /\ loop_pc = "none"
    /\ wpc = [w \in WorkerIds |-> "none"]

Next ==
    \/ run_in_foreground_call
    \/ run_in_foreground_resume
    \/ run_in_foreground_slept
    \/ connect_spawn
    \/ connect_abstract
    \/ connect_abstract_cancelled
    \/ polling_loop_start
    \/ polling_job_done
    \/ polling_loop_wake
    \/ polling_loop_cancelled
    \/ task_cancelled_before_start
    \/ get_updates_return
    \/ get_updates_timeout
    \/ get_updates_raise
    \/ \E w \in WorkerIds : worker_step(w)
    \/ \E s \in ShutdownCalls : shutdown_call(s) \/ shutdown_resume(s)
    \/ cleanup_call

Spec == Init /\ [][Next]_vars

\* _polling_loop and the number_of_workers _worker tasks connect is written to
\* start, each started as a task of its own.
InitPool ==
    /\ InitIdle
    /\ cls = "Polling"
    /\ attrs = ConstructedAttrs(cls)
    /\ number_of_workers \in 0..MaxWorkers
    /\ pipeline = TRUE
    /\ loop_pc = "start"
    /\ wpc = [w \in WorkerIds |-> IF w <= number_of_workers THEN "start" ELSE "none"]

NextPool ==
    \/ polling_loop_start
    \/ polling_job_done
    \/ polling_loop_wake
    \/ polling_loop_cancelled
    \/ task_cancelled_before_start
    \/ get_updates_return
    \/ get_updates_timeout
    \/ get_updates_raise
    \/ loop_task_cancel
    \/ \E w \in WorkerIds : worker_step(w)
    \/ \E s \in ShutdownCalls : shutdown_call(s)

SpecPool == InitPool /\ [][NextPool]_vars

\* _polling_loop filling the queue while concurrent callers await _worker_job
\* on it, with worker_timeout = None (its default), so that wait_for never
\* times out, and a runner that returns.
InitFifo ==
    /\ InitFields /\ InitPipeline /\ InitPoll /\ InitLife /\ InitJobs /\ InitCallback
    /\ InitStore /\ InitRun
    /\ request_queue = <<>>
    /\ cls = "Polling"
    /\ attrs = ConstructedAttrs(cls)
    /\ number_of_workers = NumCallers
    /\ pipeline = TRUE
    /\ poll_timeout = "finite"
    /\ worker_timeout = "None"
    /\ py311 = TRUE
    /\ loop_pc = "start"
    /\ wpc = [w \in WorkerIds |-> "none"]
    /\ unawaited = {}

NextFifo ==
    \/ polling_loop_start
    \/ polling_job_done
    \/ polling_loop_wake
    \/ get_updates_return
    \/ get_updates_timeout
    \/ get_updates_raise
    \/ \E c \in Callers :
           \/ worker_job_get(c)
           \/ lock_acquired(c)
           \/ to_thread_done(c)
           \/ process_request_start(c)
           \/ run_pipeline_return(c)
           \/ respond_done(c)
           \/ worker_job_exit(c)

SpecFifo == InitFifo /\ [][NextFifo]_vars

\* A CallbackMessengerInterface, its connect and its two entry points.
InitCallbackIface ==
    /\ InitIdle
    /\ poll_timeout = "None"
    /\ py311 = TRUE
    /\ cls = "Callback"
    /\ attrs = ConstructedAttrs(cls)
    /\ number_of_workers = 0
    /\ pipeline = FALSE
    /\ loop_pc = "none"
    /\ wpc = [w \in WorkerIds |-> "none"]

NextCallback ==
    \/ callback_connect
    \/ \E d \in Deliveries :
           \/ on_request_call(d)
           \/ on_request_in_loop(d)
           \/ runner_return(d)
           \/ runner_raise(d)

SpecCallback == InitCallbackIface /\ [][NextCallback]_vars

\* A polling and a callback interface bound to one pipeline: callers await
\* _worker_job on a queue that holds two requests of conversation "A" while
\* on_request / on_request_async are called (worker_timeout = None, and the
\* runner returns).
InitShared ==
    /\ InitFields /\ InitPipeline /\ InitPoll /\ InitLife /\ InitJobs /\ InitCallback
    /\ InitStore /\ InitRun
    /\ request_queue = <<Request("A", 1), Request("A", 2)>>
    /\ number_of_workers = 0
    /\ cls = "Polling"
    /\ attrs = ConstructedAttrs(cls)
    /\ pipeline = TRUE
    /\ poll_timeout = "None"
    /\ worker_timeout = "None"
    /\ py311 = TRUE
    /\ loop_pc = "none"
    /\ wpc = [w \in WorkerIds |-> "none"]
    /\ unawaited = {}

NextShared ==
    \/ callback_connect
    \/ \E d \in Deliveries : on_request_call(d) \/ runner_return(d)
    \/ \E c \in Callers :
           \/ worker_job_get(c)
           \/ lock_acquired(c)
           \/ to_thread_done(c)
           \/ process_request_start(c)
           \/ run_pipeline_return(c)
           \/ respond_done(c)
           \/ worker_job_exit(c)

SpecShared == InitShared /\ [][NextShared]_vars

\* A context storage on its own: items are set, deleted and the storage is
\* cleared in any order.
InitStorage ==
    /\ InitCallbackIface

SpecStore == InitStorage /\ [][NextStore]_vars

\* Pipeline runs of one conversation, one after the other.
InitPipelineRun ==
    /\ InitCallbackIface

SpecRun == InitPipelineRun /\ [][NextRun]_vars

\* Every task that is ready to run is run: asyncio's ready queue is FIFO.
FairSpecPool ==
    /\ SpecPool
    /\ \A w \in WorkerIds : WF_vars(worker_step(w))
    /\ WF_vars(polling_loop_cancelled)
    /\ WF_vars(task_cancelled_before_start)


\* ===================================================================== claims
InQueue(r) == \E i \in 1..Len(request_queue) : request_queue[i] = r

\* The states of a caller of _worker_job between entering and leaving the
\* `async with` block, and those in which _process_request is under way.
InsideLock(c) == jpc[c] \in {"to_thread", "wait_for", "run", "respond", "finish"}
InProcessRequest(c) == jpc[c] \in {"run", "respond"}

\* Every worker task has ended.
AllWorkersDone == \A w \in WorkerIds : w <= number_of_workers => wpc[w] = "done"

\* C1: for every conversation id at most one _process_request (pipeline run
\* and respond) is under way at any moment, and whoever is between the entry
\* and the exit of the `async with` block of that id is the holder of its lock.
C1_MutualExclusion ==
    \A id \in CtxIds :
        /\ Cardinality({c \in Callers : InsideLock(c) /\ jreq[c].id = id}) <= 1
        /\ \A c \in Callers :
               (InsideLock(c) /\ jreq[c].id = id) => context_lock[id].holder = c

\* One run of a conversation is under way while a second request of the same
\* conversation has been taken and waits for the lock.
C1_Witness ==
    \E c, d \in Callers :
        /\ c # d
        /\ jpc[c] = "run"
        /\ jpc[d] = "lock"
        /\ jreq[c].id = jreq[d].id

\* C2 (as a final result): once every worker of a pool of at least one worker
\* has ended, each request that was enqueued while the interface was running
\* has had exactly one pipeline run.
C2_EveryRequestRunOnce ==
    (number_of_workers >= 1 /\ AllWorkersDone)
        => \A n \in Tokens : n <= enq_running => runs[n] = 1

\* C3 (as a final result): with at least two workers and requests of two
\* different conversations enqueued while the interface was running, the pool
\* does not end without both conversations having had a pipeline run.
C3_BothConversationsRun ==
    (number_of_workers >= 2 /\ AllWorkersDone)
        => \A i, j \in 1..Len(request_queue) :
               LET a == request_queue[i]
                   b == request_queue[j]
               IN  (/\ a # None /\ b # None /\ a.id # b.id
                    /\ a.n <= enq_running /\ b.n <= enq_running)
                       => (runs[a.n] >= 1 /\ runs[b.n] >= 1)

\* C4: a request taken from the queue is the cause of at most one call of the
\* pipeline runner and is never on the queue again, also after its wait_for
\* timed out; a request not yet taken has had no run.
C4_AtMostOnce ==
    \A r \in Requests :
        /\ runs[r.n] <= 1
        /\ r \in taken => ~InQueue(r)
        /\ (InQueue(r) /\ r \notin taken) => runs[r.n] = 0

\* A request timed out after its run had begun, and every caller has since
\* returned with the queue drained: it was run once and not again.
C4_Witness ==
    /\ request_queue = <<>>
    /\ \A c \in Callers : jpc[c] = "idle"
    /\ \E r \in dropped : runs[r.n] = 1

\* C5: after the processing of a request has exceeded worker_timeout the
\* conversation store does not hold the state of that run.
C5_NoCommitOnTimeout ==
    \A r \in dropped : store[r.id] # r.n

\* C6: once loop() has returned False at the while test, the polling loop has
\* exited and every worker task eventually ends.
C6_WorkersTerminate ==
    pred_false ~> (loop_pc = "exited" /\ AllWorkersDone)

\* loop() has returned False with two workers in the pool, and both have ended.
C6_Witness ==
    /\ pred_false
    /\ number_of_workers = 2
    /\ loop_pc = "exited"
    /\ AllWorkersDone

\* The sentinels on the queue.
SentinelsInQueue ==
    Cardinality({i \in 1..Len(request_queue) : request_queue[i] = None})

\* C7: the polling loop has put exactly number_of_workers sentinels when it has
\* exited, whatever made it exit, and none before; nothing else puts one.
C7_ExactlyWSentinels ==
    /\ sentinels_put = IF loop_pc = "exited" THEN number_of_workers ELSE 0
    /\ SentinelsInQueue = sentinels_put

\* The loop of a pool of two workers was cancelled while a fetch was in
\* flight, and two sentinels are on the queue.
C7_Witness ==
    /\ loop_exit = "cancelled"
    /\ number_of_workers = 2
    /\ job_pc = "fetch"
    /\ SentinelsInQueue = 2

\* C8: a shutdown() called when finished_working was already true has returned
\* normally, and running is false.
C8_ShutdownAfterFinish ==
    \A s \in ShutdownCalls :
        (sd_pc[s] # "idle" /\ sd_fin_at_call[s]) => (sd_pc[s] = "returned" /\ ~running)

\* shutdown() was called after a cancelled connect task and a completed
\* run_in_foreground, and returned.
C8_Witness ==
    \E s \in ShutdownCalls :
        /\ sd_fin_at_call[s]
        /\ sd_seen[s] = "cancelled"
        /\ sd_pc[s] = "returned"
        /\ rif_pc = "returned"

\* C9: when the task awaited by shutdown() reports cancellation, shutdown()
\* raises CancelledError exactly if finished_working is false at that moment.
C9_CancellationPropagated ==
    \A s \in ShutdownCalls :
        sd_seen[s] = "cancelled" => (sd_pc[s] = "raised_cancel" <=> ~sd_fin_at_wake[s])

\* shutdown() was called while the connect task was running and raised
\* CancelledError to its caller.
C9_Witness ==
    \E s \in ShutdownCalls :
        /\ sd_running_at_call[s]
        /\ sd_seen[s] = "cancelled"
        /\ sd_pc[s] = "raised_cancel"

\* run_in_foreground is over, by return or by exception.
RunInForegroundOver == rif_pc \in {"returned", "raised"}

C12_FinishedAfterCleanup ==
    /\ (RunInForegroundOver /\ task \in {"done_ok", "cancelled"}) => finished_working
    /\ finished_working => rif_cleanup = "ok"

\* C13: no call of cleanup() raises, at whatever point of the lifecycle.
C13_CleanupNeverRaises ==
    /\ rif_cleanup \in {"none", "ok"}
    /\ \A i \in 1..Len(cleanup_outs) : cleanup_outs[i] = "ok"

\* C14: a worker task that went into its loop ends only after it has taken a
\* sentinel from the queue, whether or not shutdown() was called meanwhile.
C14_WorkersStopBySentinel ==
    \A w \in WorkerIds :
        (wpc[w] = "done" /\ w \in unawaited) => SentinelsInQueue < sentinels_put

\* C15: a fetch that exceeds poll_timeout does not end the polling loop: the
\* loop is never left with the TimeoutError of a fetch.
C15_FetchTimeoutContinues ==
    loop_exit # "TimeoutError"

\* C16: an ordinary exception of _get_updates does not end the polling loop.
C16_FetchExceptionContinues ==
    loop_exit # "Exception"

\* C17: as long as the interface is running and the polling loop has put no
\* sentinel, every worker task of the pool is alive, whatever happened in the
\* pipeline runs so far.
C17_PoolKeepsWorkers ==
    (running /\ sentinels_put = 0)
        => \A w \in WorkerIds : w <= number_of_workers => wpc[w] # "done"

\* s is a prefix of t.
IsPrefix(s, t) == Len(s) <= Len(t) /\ \A i \in 1..Len(s) : s[i] = t[i]

\* C19: the requests of one conversation get the conversation's lock in the
\* order in which they were taken from the queue, whoever took them.
C19_LockInDequeueOrder ==
    \A id \in CtxIds : IsPrefix(lock_order[id], deq_order[id])

\* Three requests of one conversation were taken by two callers: two have had
\* the lock, one caller holds it now and the other waits for it with the third.
C19_Witness ==
    \E id \in CtxIds :
        /\ Len(lock_order[id]) = 2
        /\ Len(deq_order[id]) = 3
        /\ \E c, d \in Callers :
               /\ c # d
               /\ InsideLock(c) /\ jreq[c].id = id
               /\ jpc[d] = "lock" /\ jreq[d].id = id

\* C18: the real requests stand on the queue in the order in which the fetches
\* returned them (update k is the k-th pair fetched), and every request
\* already taken from the queue was fetched before every request still on it.
C18_QueueFifo ==
    /\ \A i, j \in 1..Len(request_queue) :
           (i < j /\ request_queue[i] # None /\ request_queue[j] # None)
               => request_queue[i].n < request_queue[j].n
    /\ \A r \in taken : \A i \in 1..Len(request_queue) :
           request_queue[i] # None => r.n < request_queue[i].n

\* Three requests were fetched; the first two have been taken, in the order
\* of their arrival, and the third is still on the queue.
C18_Witness ==
    /\ enq = 3
    /\ {r.n : r \in taken} = {1, 2}
    /\ \E c \in Callers : jpc[c] = "run" /\ jreq[c].n = 2
    /\ request_queue # <<>>
    /\ Head(request_queue) # None
    /\ Head(request_queue).n = 3

\* The runner invocations made for call d.
Invocations(d) == {i \in 1..Len(runner_log) : runner_log[i].d = d}

\* Call d went through to the runner.
Delivered(d) == cb_pc[d] \in {"in_runner", "returned"} \/ cb_out[d].kind = "RunnerError"

\* C20: a call of on_request_async or on_request that found a stored runner
\* has invoked that runner exactly once, with the message, ctx_id and
\* update_ctx_misc it was given; when it has returned, it returned the
\* runner's context, so that a synchronous and an asynchronous call with the
\* same arguments and runner return the same; nothing is queued or polled.
C20_CallbackDelivers ==
    /\ \A d \in Deliveries :
           /\ Delivered(d) =>
                 /\ Cardinality(Invocations(d)) = 1
                 /\ \A i \in Invocations(d) :
                        /\ runner_log[i].args.message = cb_in[d].request
                        /\ runner_log[i].args.ctx_id = cb_in[d].ctx_id
                        /\ runner_log[i].args.update_ctx_misc = cb_in[d].update_ctx_misc
                        /\ cb_pc[d] = "returned" =>
                              cb_out[d].ctx = PipelineRunner(runner_log[i].runner,
                                                  cb_in[d].request, cb_in[d].ctx_id,
                                                  cb_in[d].update_ctx_misc)
           /\ ~Delivered(d) => Invocations(d) = {}
    /\ \A d, e \in Deliveries :
           (/\ cb_pc[d] = "returned" /\ cb_pc[e] = "returned"
            /\ cb_in[d].kind = "sync" /\ cb_in[e].kind = "async"
            /\ [cb_in[d] EXCEPT !.kind = "async"] = cb_in[e]
            /\ \A i \in Invocations(d), j \in Invocations(e) :
                   runner_log[i].runner = runner_log[j].runner)
               => cb_out[d] = cb_out[e]
    /\ request_queue = <<>> /\ enq = 0 /\ taken = {}

\* on_request and on_request_async were called with the same message, ctx_id
\* and update_ctx_misc; both have returned, after two runner invocations.
C20_Witness ==
    \E d, e \in Deliveries :
        /\ cb_pc[d] = "returned" /\ cb_pc[e] = "returned"
        /\ cb_in[d].kind = "sync" /\ cb_in[e].kind = "async"
        /\ cb_in[d].update_ctx_misc = "misc"
        /\ [cb_in[d] EXCEPT !.kind = "async"] = cb_in[e]
        /\ cb_out[d] = cb_out[e]
        /\ cb_out[d].kind = "context"
        /\ Len(runner_log) = 2

\* A step in which the polling loop starts a _polling_job, and with it a fetch.
FetchStarts == job_pc # "fetch" /\ job_pc' = "fetch"

\* C30: the polling loop starts a fetch only in a step in which loop() has
\* returned True and running is true; after loop() has returned False or
\* running was cleared it starts none.
C30_FetchOnlyWhileRunning ==
    [][FetchStarts => (/\ running /\ running'
                       /\ ~pred_false /\ ~pred_false'
                       /\ loop_pc' = "job")]_vars

\* The loop has fetched and enqueued requests, then loop() returned False and
\* the loop exited with no fetch in flight.
C30_Witness ==
    /\ pred_false
    /\ loop_exit = "predicate"
    /\ enq >= 1
    /\ job_pc = "none"

\* The conversations whose lock caller c holds.
LocksHeld(c) == {id \in CtxIds : context_lock[id].holder = c}

\* C22: a conversation's lock is held only by a caller that is inside the
\* `async with` block of a request of that conversation, so it is free
\* whenever no run of the conversation is under way, whichever way the last
\* one ended; and no caller holds two locks.
C22_LockOnlyDuringRun ==
    /\ \A id \in CtxIds :
           LET h == context_lock[id].holder IN
               h # 0 => (h \in Callers /\ InsideLock(h) /\ jreq[h].id = id)
    /\ \A c \in Callers : Cardinality(LocksHeld(c)) <= 1

\* One caller has left _worker_job with TimeoutError and the other with the
\* runner's exception; both are idle and every lock is free.
C22_Witness ==
    /\ \E c, d \in Callers : jout[c] = "TimeoutError" /\ jout[d] = "Exception"
    /\ \A c \in Callers : jpc[c] = "idle"
    /\ \A id \in CtxIds : context_lock[id].holder = 0
    /\ \E n \in Tokens : responded[n] = 1

\* C21: a runner invocation made through the callback interface and the
\* pipeline run of a polling worker for the same conversation are never under
\* way at the same time.
C21_SharedLockExcludes ==
    \A d \in Deliveries : \A c \in Callers :
        ~(/\ cb_pc[d] = "in_runner"
          /\ jpc[c] = "run"
          /\ cb_in[d].ctx_id = jreq[c].id)

C29_DeleteHidesKey ==
    [][/\ db_op'.op = "del" =>
           /\ DOMAIN contexts_table' = DOMAIN contexts_table
           /\ \A p \in DOMAIN contexts_table :
                  /\ contexts_table'[p].data = contexts_table[p].data
                  /\ contexts_table'[p].updated_at = contexts_table[p].updated_at
                  /\ contexts_table'[p].storage_key =
                         IF contexts_table[p].storage_key = db_op'.key THEN NULL
                         ELSE contexts_table[p].storage_key
           /\ ~contains_async(db_op.key)'
           /\ get_async(db_op.key)' = NoContextData
           /\ len_async' = len_async - (IF contains_async(db_op'.key) THEN 1 ELSE 0)
       /\ (db_op'.op = "set" /\ db_op'.key \in deleted) =>
           /\ contains_async(db_op.key)'
           /\ get_async(db_op.key)' = PackedContext(db_op'.ctx)]_vars

\* A key was deleted while another was stored, and has been written again
\* by another Context object: the deleted row is still there, without a key.
C29_Witness ==
    /\ db_op.op = "set" /\ db_op.key \in deleted
    /\ \E p \in DOMAIN contexts_table : contexts_table[p].storage_key = NULL
    /\ len_async = 2

\* The invocation of component c in the current run has returned.
Returned(c) == body_out[c] # "none"

\* The places of the current run's log where a body (stage "BODY") or a
\* handler of the stage was entered.
FiredAt(stage) == {i \in DOMAIN fired : fired[i].global = stage}
TimesFired(h) == Cardinality({i \in DOMAIN fired : fired[i].func = h /\ fired[i].component = 0})

\* The dispatch order of one run (spec 4.2).
RECURSIVE Dispatch(_)
StageEvents(stage, c) ==
    [i \in 1..Len(HandlersOf(stage)) |->
        ExtraHandlerRuntimeInfo(HandlersOf(stage)[i], stage, c)]
Dispatch(c) ==
    IF c > NumComponents THEN StageEvents("AFTER_ALL", 0)
    ELSE StageEvents("BEFORE", c) \o <<ExtraHandlerRuntimeInfo(0, "BODY", c)>>
             \o StageEvents("AFTER", c) \o Dispatch(c + 1)
ExpectedDispatch == StageEvents("BEFORE_ALL", 0) \o Dispatch(1)

\* C23: the state of a path is RUNNING only while its component's body is
\* being executed; once the invocation has returned it is FINISHED, or
\* FAILED when the body threw.
C23_NeverLeftRunning ==
    \A c \in Components :
        /\ get(c) = "RUNNING" => (run_pc = "body" /\ comp = c)
        /\ Returned(c) =>
               get(c) = (IF body_out[c] = "raised" THEN "FAILED" ELSE "FINISHED")

\* A run is over in which one body threw and another returned.
C23_Witness ==
    /\ run_pc = "done"
    /\ \E c, d \in Components :
           /\ body_out[c] = "raised" /\ get(c) = "FAILED"
           /\ body_out[d] = "returned" /\ get(d) = "FINISHED"

\* C24: a read of a path that is not in the execution-state map gives
\* NOT_RUN, no read changes the map, and a path that was never invoked
\* reads NOT_RUN.
C24_ReadOfUnknownPath ==
    [][/\ last_read' # last_read =>
           /\ service_states' = service_states
           /\ last_read'.path \notin DOMAIN service_states =>
                  last_read'.state = "NOT_RUN"
       /\ \A p \in Paths \ invoked' : get(p)' = "NOT_RUN"]_vars

\* After a whole run the path that is no component of the pipeline was read
\* as NOT_RUN and is still not in the map, which holds every component.
C24_Witness ==
    /\ run_pc = "done"
    /\ last_read = [path |-> UnknownPath, state |-> "NOT_RUN"]
    /\ DOMAIN service_states = Components

\* C25: the state of a path changes only to RUNNING, from NOT_RUN, FINISHED
\* or FAILED, or from RUNNING to FINISHED or FAILED; the start of an
\* invocation leaves the path RUNNING whatever it was, and its end moves it
\* from RUNNING to FINISHED or FAILED.
C25_TransitionOrder ==
    [][\A p \in Paths :
           LET before == get(p)
               after == get(p)'
           IN /\ before # after =>
                     \/ after = "RUNNING"
                     \/ before = "RUNNING" /\ after \in {"FINISHED", "FAILED"}
              /\ (run_pc = "start" /\ run_pc' = "body" /\ comp = p) =>
                     after = "RUNNING"
              /\ (run_pc = "body" /\ run_pc' # "body" /\ comp = p) =>
                     before = "RUNNING" /\ after \in {"FINISHED", "FAILED"}]_vars

\* In a second run a path that was FAILED has become RUNNING and then
\* FINISHED, and the path after it, FINISHED before, is RUNNING.
C25_Witness ==
    /\ runs_done = 1
    /\ \E p, q \in Components :
           /\ prior[p] = "FAILED" /\ get(p) = "FINISHED"
           /\ prior[q] = "FINISHED" /\ get(q) = "RUNNING"

\* C26: in a run no BEFORE_ALL or AFTER_ALL handler fires twice; every
\* BEFORE_ALL handler has fired before anything else does, every AFTER_ALL
\* handler fires after the bodies and handlers of all components, and when
\* the run is over each of them has fired once.
C26_AllHandlersOnce ==
    /\ \A h \in DOMAIN Registered :
           Registered[h] \in {"BEFORE_ALL", "AFTER_ALL"} =>
               /\ TimesFired(h) <= 1
               /\ run_pc = "done" => TimesFired(h) = 1
    /\ \A i \in DOMAIN fired :
           /\ fired[i].global # "BEFORE_ALL" =>
                  FiredAt("BEFORE_ALL") = 1..HandlersPerStage
           /\ fired[i].global = "AFTER_ALL" =>
                  /\ \A c \in Components : Returned(c)
                  /\ \A j \in DOMAIN fired :
                         fired[j].global # "AFTER_ALL" => j < i

\* A run is over in which the first component FAILED.
C26_Witness ==
    /\ run_pc = "done"
    /\ get(1) = "FAILED" /\ body_out[1] = "raised"
    /\ Cardinality(FiredAt("AFTER_ALL")) = HandlersPerStage

\* C27: whichever handlers fail, the run follows the dispatch order to its
\* end: every sibling handler is fired and every body executed, and a
\* component's state is FINISHED or FAILED by the outcome of its own body.
C27_HandlerFailureContained ==
    /\ IsPrefix(fired, ExpectedDispatch)
    /\ run_pc = "done" => fired = ExpectedDispatch
    /\ \A c \in Components :
           (run_pc = "done" \/ comp > c) =>
               /\ body_out[c] \in {"returned", "raised"}
               /\ get(c) = (IF body_out[c] = "raised" THEN "FAILED" ELSE "FINISHED")

\* A run is over in which a handler of every stage failed and yet every
\* component is FINISHED.
C27_Witness ==
    /\ run_pc = "done"
    /\ handler_failures = GlobalExtraHandlerType
    /\ \A c \in Components : body_out[c] = "returned" /\ get(c) = "FINISHED"

\* C31: the cancellation of the task that runs the polling loop leaves the
\* fetch-and-enqueue job that is in flight where it stands, and whenever a
\* fetch ends, the queue has grown by all the pairs it returned, in their
\* order, or (timeout, exception, None) by nothing.
C31_ShieldedFetch ==
    [][/\ (cancel_req /\ loop_pc = "job" /\ loop_pc' = "exited") => job_pc' = job_pc
       /\ (job_pc = "fetch" /\ job_pc' # "fetch") =>
              /\ job_pc' \in {"done_ok"} \cup JobExceptions
              /\ \/ /\ job_pc' = "done_ok"
                    /\ request_queue' = request_queue \o Enqueued(received_updates')
                    /\ enq' = enq + Len(received_updates'.ids)
                 \/ request_queue' = request_queue /\ enq' = enq]_vars

\* The loop of a pool of two workers was cancelled during a fetch, which
\* then returned two pairs: both stand on the queue, behind the sentinels.
C31_Witness ==
    /\ loop_exit = "cancelled"
    /\ job_pc = "done_ok"
    /\ Len(received_updates.ids) = 2
    /\ request_queue = <<None, None>> \o Enqueued_At(received_updates, 0)

\* C32: when the polling loop has exited, number_of_workers sentinels were
\* on record at the moment it cleared self.running.
C32_SentinelsBeforeClear ==
    loop_pc = "exited" => cleared_with = number_of_workers

\* C33: a worker task ends on a sentinel only, a run that timed out does not
\* end it: when a worker has ended, no request that was enqueued while the
\* interface was running is left on the queue without a worker to take it.
C33_WorkersOutliveTimeouts ==
    \A w \in WorkerIds :
        (w <= number_of_workers /\ wpc[w] = "done")
            => \A i \in 1..Len(request_queue) :
                   request_queue[i] # None => request_queue[i].n > enq_running

\* The pipeline run of request r has returned: _process_request is at its
\* _respond, or was when _respond returned or the timeout fired.
RunReturned(r) ==
    \/ \E c \in Callers : jpc[c] = "respond" /\ jreq[c] = r
    \/ responded[r.n] = 1
    \/ r \in committed_dropped

C35_FixedPool ==
    (cls = "Polling" /\ task \in {"running", "done_ok", "done_exc"})
        => Cardinality({w \in WorkerIds : wpc[w] # "none"}) = number_of_workers

\* C36: no request stands behind a sentinel on the queue.
C36_NothingBehindSentinels ==
    \A i, j \in 1..Len(request_queue) :
        (i < j /\ request_queue[i] = None) => request_queue[j] = None

\* C37: a request whose timeout fired during _respond, after its run had
\* returned and the conversation was stored, counts as dropped like any other
\* timed-out request: its _respond was called and never completed, it is not
\* put back on the queue, and while the caller is still inside the lock the
\* store holds the state of that run.
C37_TimeoutCoversRespond ==
    /\ committed_dropped \subseteq dropped
    /\ \A r \in committed_dropped :
           /\ runs[r.n] = 1
           /\ Len(respond_calls[r.n]) = 1
           /\ responded[r.n] = 0
           /\ ~InQueue(r)
    /\ \A c \in Callers :
           (jpc[c] = "finish" /\ jreq[c] \in committed_dropped) =>
               /\ jres[c] = "TimeoutError"
               /\ store[jreq[c].id] = jreq[c].n

\* The timeout has fired during the _respond of a request of "A": the caller
\* is about to leave the lock with the TimeoutError, and the store holds the
\* conversation of the dropped request.
C37_Witness ==
    \E c \in Callers :
        /\ jpc[c] = "finish"
        /\ jres[c] = "TimeoutError"
        /\ jreq[c] \in committed_dropped
        /\ jreq[c].id = "A"
        /\ store["A"] = jreq[c].n
        /\ responded[jreq[c].n] = 0

\* C38: when run_in_foreground is over after a connect task that ended with
\* an exception other than cancellation, its one call of cleanup() has
\* returned, the exception of the task has left run_in_foreground, and
\* finished_working is false.
C38_ExceptionReachesCaller ==
    (RunInForegroundOver /\ task = "done_exc")
        => (rif_pc = "raised" /\ rif_cleanup = "ok" /\ ~finished_working)

\* C39: running is false from the moment shutdown() is called, however the
\* call ends; no step sets running back to true, and no step takes back a
\* cancellation request, the end of the connect task, the exit of the polling
\* loop or the end of run_in_foreground.
C39_RunningNeverRestored ==
    /\ [](\A s \in ShutdownCalls : sd_pc[s] # "idle" => ~running)
    /\ [][/\ ~running => ~running'
          /\ cancel_req => cancel_req'
          /\ TaskDone => (TaskDone' /\ task' = task)
          /\ loop_pc = "exited" => loop_pc' = "exited"
          /\ RunInForegroundOver => RunInForegroundOver'
          /\ finished_working => finished_working'
          /\ \A s \in ShutdownCalls : sd_pc[s] # "idle" => sd_pc'[s] # "idle"]_vars

\* One shutdown() was called before any task existed and raised, a second one
\* was called while the connect task ran and raised CancelledError, and
\* running is false.
C39_Witness ==
    /\ ~running
    /\ \E s, t \in ShutdownCalls :
           /\ sd_pc[s] = "raised_attr"
           /\ sd_running_at_call[t]
           /\ sd_pc[t] = "raised_cancel"

\* Nothing has been called on the interface object since its construction.
JustConstructed ==
    /\ rif_pc = "idle"
    /\ \A s \in ShutdownCalls : sd_pc[s] = "idle"

\* C40: an interface object of any class has every attribute of the base
\* lifecycle state, with the values of MessengerInterface.__init__ as long
\* as nothing was called on it, so that run_in_foreground gets as far as
\* awaiting its connect task and shutdown() fails for want of an attribute
\* only when no task was ever started.
C40_BaseStateAfterConstruction ==
    /\ BaseAttrs \subseteq attrs
    /\ JustConstructed =>
           /\ running /\ ~finished_working /\ ~running_in_foreground
           /\ task = "None" /\ ~pipeline
    /\ (cls = "Callback" /\ rif_pc # "idle") => "task" \in attrs

=============================================================================
